---- MODULE Spec2Model ----
(***************************************************************************)
(* Model of the Cursor usage monitor extension (src/src/usageMonitor.ts,   *)
(* src/src/extension.ts): the refresh cycle, the parsing of the usage      *)
(* response, the status bar and detail rendering, and the timer lifecycle. *)
(***************************************************************************)
EXTENDS Integers, Sequences, FiniteSets, TLC

(***************************************************************************)
(* Bounds of the model.                                                    *)
(***************************************************************************)
\* numRequests of a single-entry response ranges over 0..MaxUsed
MaxUsed == 45
\* maxRequestUsage of a single-entry response ranges over null, 0..MaxLimit
MaxLimit == 40
\* number of entries of a multi-entry response
MaxModels == 2
\* number of refresh invocations in one run of the lifecycle
MaxRefreshes == 2

(***************************************************************************)
(* Optional values: null is the empty sequence, a number n is <<n>>.       *)
(***************************************************************************)
Null == <<>>
Some(n) == <<n>>
Val(o) == o[1]

(***************************************************************************)
(* IEEE-754 double arithmetic on positive values, as far as                *)
(* Math.round((used / limit) * 100) needs it.  A double is a record        *)
(* [h, m, l, e]: the 53-bit significand is h * 2^36 + m * 2^18 + l with    *)
(* 2^16 <= h < 2^17 and m, l < 2^18, and e is the exponent of its first    *)
(* bit, so the value is significand * 2^(e - 52).  The operators are exact *)
(* for operands below 2^12, which covers every input of the model.         *)
(***************************************************************************)
RECURSIVE Pow2(_)
Pow2(n) == IF n = 0 THEN 1 ELSE 2 * Pow2(n - 1)

Limb == Pow2(18)
TopOne == Pow2(16)

\* the significand plus one unit in the last place
IncDouble(d) ==
    IF d.l + 1 < Limb THEN [d EXCEPT !.l = d.l + 1]
    ELSE IF d.m + 1 < Limb THEN [d EXCEPT !.l = 0, !.m = d.m + 1]
    ELSE IF d.h + 1 < 2 * TopOne THEN [d EXCEPT !.l = 0, !.m = 0, !.h = d.h + 1]
    ELSE [h |-> TopOne, m |-> 0, l |-> 0, e |-> d.e + 1]

\* round to nearest, ties to even: guard is the first dropped bit, sticky
\* says whether a non-zero bit follows it
RoundNearestEven(d, guard, sticky) ==
    IF guard = 1 /\ (sticky \/ (d.l % 2) = 1) THEN IncDouble(d) ELSE d

\* the least k with u * 2^k >= l
RECURSIVE ShiftUp(_, _)
ShiftUp(u, l) == IF u >= l THEN 0 ELSE 1 + ShiftUp(2 * u, l)

\* the greatest k with l * 2^k <= u  (l <= u)
RECURSIVE ShiftDown(_, _)
ShiftDown(u, l) == IF 2 * l > u THEN 0 ELSE 1 + ShiftDown(u, 2 * l)

\* the double nearest to u / l, for integers u > 0, l > 0 (JavaScript's u / l)
DoubleDiv(u, l) ==
    LET k  == IF u < l THEN ShiftUp(u, l) ELSE 0
        j  == IF u >= l THEN ShiftDown(u, l) ELSE 0
        un == u * Pow2(k)
        ln == l * Pow2(j)
        r0 == un - ln
        a  == (r0 * TopOne) \div ln
        r1 == (r0 * TopOne) % ln
        b  == (r1 * Limb) \div ln
        r2 == (r1 * Limb) % ln
        c  == (r2 * Limb) \div ln
        r3 == (r2 * Limb) % ln
        g  == IF 2 * r3 >= ln THEN 1 ELSE 0
    IN  RoundNearestEven([h |-> TopOne + a, m |-> b, l |-> c, e |-> j - k],
                         g, 2 * r3 - g * ln > 0)

\* the double nearest to x * c, for a double x > 0 and an integer 2 <= c < 2^7
\* (JavaScript's x * c)
DoubleMulSmall(x, c) ==
    LET pl == x.l * c
        pm == (x.m * c) + (pl \div Limb)
        ph == (x.h * c) + (pm \div Limb)
        l0 == pl % Limb
        m0 == pm % Limb
        s  == ShiftDown(ph, TopOne)      \* bits to drop, ph < 2^(17 + s)
        w  == Pow2(s)
        dropped == l0 % w
        half    == w \div 2
    IN  RoundNearestEven([h |-> ph \div w,
                          m |-> (m0 \div w) + ((ph % w) * (Limb \div w)),
                          l |-> (l0 \div w) + ((m0 % w) * (Limb \div w)),
                          e |-> x.e + s],
                         IF dropped >= half THEN 1 ELSE 0,
                         (dropped % half) > 0)

\* Math.round of a double 0 < x < 2^16: the nearest integer, halves up
MathRound(x) ==
    IF x.e < -1 THEN 0
    ELSE IF x.e = -1 THEN 1
    ELSE IF x.e < 16 THEN (x.h \div Pow2(16 - x.e)) + ((x.h \div Pow2(15 - x.e)) % 2)
    ELSE x.h + (x.m \div Pow2(17))

\* Math.round((used / limit) * 100) for used >= 0 and limit > 0
JsPercentage(used, limit) ==
    IF used = 0 THEN 0
    ELSE MathRound(DoubleMulSmall(DoubleDiv(used, limit), 100))

(***************************************************************************)
(* The usage response and the records parsed from it.                      *)
(* A response body is [kind, entries, startOfMonth]: kind "usage" is a     *)
(* JSON object whose entries (in Object.entries order) are                 *)
(* [key, isString, numRequests, maxRequestUsage]; kind "malformed" is text *)
(* that JSON.parse rejects; kind "null" is the JSON text null.             *)
(***************************************************************************)
NoStartOfMonth == ""

PriorityKeys ==
    <<"gpt-4", "claude-3-opus", "claude-4.5-opus-high-thinking", "claude-3.5-sonnet">>

ModelName(key) ==
    CASE key = "gpt-4" -> "Premium (Fast)"
      [] key = "gpt-3.5-turbo" -> "Standard"
      [] key = "gpt-4-32k" -> "Usage-Based"
      [] key = "claude-3-opus" -> "Opus"
      [] key = "claude-3.5-sonnet" -> "Sonnet"
      [] key = "claude-4.5-opus-high-thinking" -> "Opus 4.5"
      [] OTHER -> key

\* percentage of parseUsage: null unless limit is truthy and > 0
Percentage(used, limit) ==
    IF limit # Null /\ Val(limit) # 0 /\ Val(limit) > 0
    THEN Some(JsPercentage(used, Val(limit)))
    ELSE Null

\* the record pushed for one entry of the response
ModelOf(entry) ==
    [name       |-> ModelName(entry.key),
     key        |-> entry.key,
     used       |-> entry.numRequests,
     limit      |-> entry.maxRequestUsage,
     percentage |-> Percentage(entry.numRequests, entry.maxRequestUsage)]

\* (m.percentage || 0)
PctOrZero(m) == IF m.percentage = Null THEN 0 ELSE Val(m.percentage)

\* the comparator of models.sort: negative when a goes before b
Compare(a, b) == PctOrZero(b) - PctOrZero(a)

\* Array.prototype.sort is stable: an element is placed after every element
\* that does not compare greater than it
RECURSIVE InsertSorted(_, _)
InsertSorted(sorted, m) ==
    IF sorted = <<>> THEN <<m>>
    ELSE IF Compare(Head(sorted), m) <= 0 THEN <<Head(sorted)>> \o InsertSorted(Tail(sorted), m)
    ELSE <<m>> \o sorted

RECURSIVE SortModels(_)
SortModels(models) ==
    IF models = <<>> THEN <<>>
    ELSE InsertSorted(SortModels(SubSeq(models, 1, Len(models) - 1)), models[Len(models)])

IsUsageEntry(entry) == ~entry.isString

\* parseUsage(data)
ParseUsage(data) ==
    LET kept == SelectSeq(data.entries, IsUsageEntry)
    IN  SortModels([i \in 1..Len(kept) |-> ModelOf(kept[i])])

(***************************************************************************)
(* Status bar rendering.  A status bar text is [icon, kind, a, b]: kind    *)
(* "% left" shows a, "remaining/limit" shows a/b, "used" shows a.          *)
(***************************************************************************)
Text(icon, kind, a, b) == [icon |-> icon, kind |-> kind, a |-> a, b |-> b]

EmptyText == Text("", "", 0, 0)
NotSignedInText == Text("$(warning)", "Cursor: Not signed in", 0, 0)
ErrorText == Text("$(error)", "Cursor: Error", 0, 0)
NoDataText == Text("$(pulse)", "Cursor: No data", 0, 0)

\* models.find(pred): the first record satisfying pred, as an optional value
RECURSIVE FindKey(_, _)
FindKey(models, key) ==
    IF models = <<>> THEN Null
    ELSE IF Head(models).key = key THEN Some(Head(models))
    ELSE FindKey(Tail(models), key)

RECURSIVE FindWithLimit(_)
FindWithLimit(models) ==
    IF models = <<>> THEN Null
    ELSE IF Head(models).limit # Null THEN Some(Head(models))
    ELSE FindWithLimit(Tail(models))

\* the loop over prioritizedKeys, from position i
RECURSIVE FindPrioritized(_, _, _)
FindPrioritized(models, keys, i) ==
    IF i > Len(keys) THEN Null
    ELSE IF FindKey(models, keys[i]) # Null THEN FindKey(models, keys[i])
    ELSE FindPrioritized(models, keys, i + 1)

\* PrimaryModel if the first record with any prioritized key were taken
PrimaryModelListOrder(models) ==
    IF \E i \in 1..Len(models) : \E k \in 1..Len(PriorityKeys) : models[i].key = PriorityKeys[k]
    THEN Some(models[CHOOSE i \in 1..Len(models) :
                 /\ \E k \in 1..Len(PriorityKeys) : models[i].key = PriorityKeys[k]
                 /\ \A j \in 1..(i - 1) : \A k \in 1..Len(PriorityKeys) : models[j].key # PriorityKeys[k]])
    ELSE IF FindWithLimit(models) # Null THEN FindWithLimit(models)
    ELSE IF models # <<>> THEN Some(models[1])
    ELSE Null

\* the record updateStatusBar renders, as an optional value
PrimaryModel(models) ==
    IF FindPrioritized(models, PriorityKeys, 1) # Null
    THEN FindPrioritized(models, PriorityKeys, 1)
    ELSE IF FindWithLimit(models) # Null THEN FindWithLimit(models)
    ELSE IF models # <<>> THEN Some(models[1])
    ELSE Null

\* model.limit && model.percentage !== null
HasLimitAndPercentage(m) == m.limit # Null /\ Val(m.limit) # 0 /\ m.percentage # Null

StatusIcon(remainingPct) ==
    IF remainingPct <= 10 THEN "$(error)"
    ELSE IF remainingPct <= 30 THEN "$(warning)" ELSE "$(check)"

\* the text updateStatusBar writes for the record m
ModelText(m, showPct) ==
    IF HasLimitAndPercentage(m)
    THEN IF showPct
         THEN Text(StatusIcon(100 - Val(m.percentage)), "% left", 100 - Val(m.percentage), 0)
         ELSE Text(StatusIcon(100 - Val(m.percentage)), "remaining/limit",
                   Val(m.limit) - m.used, Val(m.limit))
    ELSE Text("$(check)", "used", m.used, 0)

\* the text updateStatusBar(models) writes
StatusBarText(models, showPct) ==
    IF PrimaryModel(models) = Null THEN NoDataText
    ELSE ModelText(Val(PrimaryModel(models)), showPct)

(***************************************************************************)
(* Detail view.  A row is [icon, name, kind, a, b, pct, date].             *)
(***************************************************************************)
Row(icon, name, kind, a, b, pct, date) ==
    [icon |-> icon, name |-> name, kind |-> kind, a |-> a, b |-> b, pct |-> pct, date |-> date]

\* DetailIcon with the first threshold exclusive
DetailIconStrict(remainingPct) ==
    IF remainingPct < 10 THEN "red"
    ELSE IF remainingPct <= 30 THEN "yellow" ELSE "green"

DetailIcon(remainingPct) ==
    IF remainingPct <= 10 THEN "red"
    ELSE IF remainingPct <= 30 THEN "yellow" ELSE "green"

\* the row showDetails builds for the record m
DetailRow(m) ==
    IF HasLimitAndPercentage(m)
    THEN Row(DetailIcon(100 - Val(m.percentage)), m.name, "remaining",
             Val(m.limit) - m.used, Val(m.limit), 100 - Val(m.percentage), "")
    ELSE Row("white", m.name, "requests used", m.used, 0, 0, "")

BillingRow(start) == Row("calendar", "Billing Cycle", "Started", 0, 0, 0, start)

NoPick == [message |-> "", items |-> <<>>]

\* what showDetails displays: a message, or the rows of the quick pick
Details(usage, start) ==
    IF Len(usage) = 0 THEN [message |-> "No usage data available.", items |-> <<>>]
    ELSE [message |-> "",
          items   |-> (IF start # NoStartOfMonth THEN <<BillingRow(start)>> ELSE <<>>)
                      \o [i \in 1..Len(usage) |-> DetailRow(usage[i])]]

(***************************************************************************)
(* Credential lookup.  The local state database is                         *)
(* [file, row, segments, payload]: file is "missing", "unreadable" or      *)
(* "ok"; row says whether the cursorAuth/accessToken row holds a value;    *)
(* segments is the number of '.'-separated parts of the token; payload is  *)
(* what its middle part decodes to: "sub" (JSON with a sub claim),         *)
(* "no_sub" (JSON without one) or "not_json".  The tokens carry no "::"    *)
(* or "%3A%3A" separator; getAuthDetails does not look for one.            *)
(***************************************************************************)
Db(file, row, segments, payload) ==
    [file |-> file, row |-> row, segments |-> segments, payload |-> payload]

NoDb == Db("", FALSE, 0, "")
SignedInDb == Db("ok", TRUE, 3, "sub")

DbStates ==
    { Db("missing", FALSE, 0, ""), Db("unreadable", FALSE, 0, ""), Db("ok", FALSE, 0, ""),
      Db("ok", TRUE, 1, ""), Db("ok", TRUE, 3, "not_json"), Db("ok", TRUE, 3, "no_sub"),
      SignedInDb }

\* getAuthDetails(): whether it returns a credential (TRUE) or undefined
GetAuthDetails(db) ==
    /\ db.file = "ok"            \* existsSync, readFileSync and new Database succeed
    /\ db.row                    \* stmt.step() and row.value
    /\ db.segments = 3           \* parts.length === 3
    /\ db.payload = "sub"        \* JSON.parse and sub.includes do not throw

(***************************************************************************)
(* Configuration.                                                          *)
(***************************************************************************)
DefaultRefreshInterval == 60
MinRefreshInterval == 10

Max(a, b) == IF a >= b THEN a ELSE b

\* config.get('refreshInterval', 60)
ConfiguredInterval(cfg) ==
    IF cfg.refreshInterval = Null THEN DefaultRefreshInterval ELSE Val(cfg.refreshInterval)

\* IntervalSec without the floor
IntervalSecUnclamped(cfg) == ConfiguredInterval(cfg)

\* intervalSec of start()
IntervalSec(cfg) == Max(ConfiguredInterval(cfg), MinRefreshInterval)

(***************************************************************************)
(* State.                                                                  *)
(***************************************************************************)
VARIABLES
    config,         \* the cursorUsage settings: [refreshInterval, showPercentage]
    serverData,     \* the usage bodies the endpoint may answer with
    statusBarItem,  \* [text, visible, disposed]
    refreshTimer,   \* [state, intervalMs]: state is "unset", "active" or "cleared"
    lastUsage,      \* this.lastUsage
    startOfMonth,   \* this.startOfMonth
    statusModel,    \* the record updateStatusBar last chose, as an optional value
    refreshes,      \* the invocations of refresh(), in the order they started
    quickPick       \* what showDetails last displayed

vars == <<config, serverData, statusBarItem, refreshTimer, lastUsage, startOfMonth,
          statusModel, refreshes, quickPick>>

NoBody == [kind |-> "", entries |-> <<>>, startOfMonth |-> NoStartOfMonth]
MalformedBody == [kind |-> "malformed", entries |-> <<>>, startOfMonth |-> NoStartOfMonth]
NullBody == [kind |-> "null", entries |-> <<>>, startOfMonth |-> NoStartOfMonth]

Entry(key, used, limit) ==
    [key |-> key, isString |-> FALSE, numRequests |-> used, maxRequestUsage |-> limit]
StringEntry(key) ==
    [key |-> key, isString |-> TRUE, numRequests |-> 0, maxRequestUsage |-> Null]
UsageBody(entries, start) == [kind |-> "usage", entries |-> entries, startOfMonth |-> start]

\* a refresh() invocation that has run up to its first await
NewRefresh(origin) ==
    [origin |-> origin, pc |-> "auth", db |-> NoDb, requested |-> FALSE,
     status |-> 0, netError |-> FALSE, body |-> NoBody,
     outcome |-> "none", promise |-> "pending"]

Started == refreshTimer.state # "unset"

\* statusBarItem.text = text; statusBarItem.show()
ShowText(item, text) == [item EXCEPT !.text = text, !.visible = ~item.disposed]

\* the constructor has run: the item exists, not yet shown, no timer
InitMonitor ==
    /\ statusBarItem = [text |-> EmptyText, visible |-> FALSE, disposed |-> FALSE]
    /\ refreshTimer = [state |-> "unset", intervalMs |-> 0]
    /\ lastUsage = <<>>
    /\ startOfMonth = NoStartOfMonth
    /\ statusModel = Null
    /\ refreshes = <<>>
    /\ quickPick = NoPick

(***************************************************************************)
(* Operations.                                                             *)
(***************************************************************************)
\* start(): one refresh, then the repeating timer
Start ==
    /\ ~Started
    /\ refreshes' = Append(refreshes, NewRefresh("start"))
    /\ refreshTimer' = [state |-> "active", intervalMs |-> IntervalSec(config) * 1000]
    /\ UNCHANGED <<config, serverData, statusBarItem, lastUsage, startOfMonth, statusModel, quickPick>>

\* the setInterval callback: () => this.refresh()
TimerFire ==
    /\ refreshTimer.state = "active"
    /\ Len(refreshes) < MaxRefreshes
    /\ refreshes' = Append(refreshes, NewRefresh("timer"))
    /\ UNCHANGED <<config, serverData, statusBarItem, refreshTimer, lastUsage, startOfMonth,
                   statusModel, quickPick>>

\* the cursor-usage.refresh command
RefreshCommand ==
    /\ Started
    /\ ~statusBarItem.disposed
    /\ Len(refreshes) < MaxRefreshes
    /\ refreshes' = Append(refreshes, NewRefresh("command"))
    /\ UNCHANGED <<config, serverData, statusBarItem, refreshTimer, lastUsage, startOfMonth,
                   statusModel, quickPick>>

\* refresh() resumes after await this.getAuthDetails(), which read db
AuthResolved(r, db) ==
    /\ refreshes[r].pc = "auth"
    /\ IF GetAuthDetails(db)
       THEN /\ refreshes' = [refreshes EXCEPT ![r] =
                                [@ EXCEPT !.pc = "fetching", !.db = db, !.requested = TRUE]]
            /\ UNCHANGED statusBarItem
       ELSE /\ refreshes' = [refreshes EXCEPT ![r] =
                                [@ EXCEPT !.pc = "done", !.db = db, !.outcome = "NotSignedIn",
                                          !.promise = "fulfilled"]]
            /\ statusBarItem' = ShowText(statusBarItem, NotSignedInText)
    /\ UNCHANGED <<config, serverData, refreshTimer, lastUsage, startOfMonth, statusModel, quickPick>>

\* FetchResult without the check of res.statusCode
FetchResultNoStatusCheck(status, body) ==
    IF body.kind # "usage" THEN Null
    ELSE Some([models |-> ParseUsage(body), startOfMonth |-> body.startOfMonth])

\* what the promise of fetchUsage settles to when the response ends:
\* Null when the 'end' handler rejects, the usage otherwise
FetchResult(status, body) ==
    IF status # 200 THEN Null               \* throw new Error(`API error ...`)
    ELSE IF body.kind = "malformed" THEN Null   \* JSON.parse throws
    ELSE IF body.kind = "null" THEN Null        \* Object.entries(null) throws
    ELSE Some([models |-> ParseUsage(body), startOfMonth |-> body.startOfMonth])

\* FinishRefresh if a refresh that is not the latest started dropped its result
FinishRefreshLatestOnly(r, rec, result) ==
    /\ IF r # Len(refreshes)
       THEN /\ refreshes' = [refreshes EXCEPT ![r] =
                                [rec EXCEPT !.pc = "done",
                                            !.outcome = IF result # Null THEN "Displayed" ELSE "Error",
                                            !.promise = "fulfilled"]]
            /\ UNCHANGED <<statusBarItem, lastUsage, startOfMonth, statusModel>>
       ELSE IF result # Null
       THEN /\ lastUsage' = Val(result).models
            /\ startOfMonth' = Val(result).startOfMonth
            /\ statusModel' = PrimaryModel(Val(result).models)
            /\ statusBarItem' = ShowText(statusBarItem,
                                    StatusBarText(Val(result).models, config.showPercentage))
            /\ refreshes' = [refreshes EXCEPT ![r] =
                                [rec EXCEPT !.pc = "done", !.outcome = "Displayed",
                                            !.promise = "fulfilled"]]
       ELSE /\ statusBarItem' = ShowText(statusBarItem, ErrorText)
            /\ refreshes' = [refreshes EXCEPT ![r] =
                                [rec EXCEPT !.pc = "done", !.outcome = "Error",
                                            !.promise = "fulfilled"]]
            /\ UNCHANGED <<lastUsage, startOfMonth, statusModel>>
    /\ UNCHANGED <<config, serverData, refreshTimer, quickPick>>

\* FinishRefresh if the catch block forgot the last-known usage
FinishRefreshClearOnError(r, rec, result) ==
    /\ IF result # Null
       THEN /\ lastUsage' = Val(result).models
            /\ startOfMonth' = Val(result).startOfMonth
            /\ statusModel' = PrimaryModel(Val(result).models)
            /\ statusBarItem' = ShowText(statusBarItem,
                                    StatusBarText(Val(result).models, config.showPercentage))
            /\ refreshes' = [refreshes EXCEPT ![r] =
                                [rec EXCEPT !.pc = "done", !.outcome = "Displayed",
                                            !.promise = "fulfilled"]]
       ELSE /\ statusBarItem' = ShowText(statusBarItem, ErrorText)
            /\ refreshes' = [refreshes EXCEPT ![r] =
                                [rec EXCEPT !.pc = "done", !.outcome = "Error",
                                            !.promise = "fulfilled"]]
            /\ lastUsage' = <<>>
            /\ startOfMonth' = NoStartOfMonth
            /\ UNCHANGED statusModel
    /\ UNCHANGED <<config, serverData, refreshTimer, quickPick>>

\* refresh() resumes after await this.fetchUsage(...): result is Null when
\* the promise rejected (the catch block runs), the usage otherwise
FinishRefresh(r, rec, result) ==
    /\ IF result # Null
       THEN /\ lastUsage' = Val(result).models
            /\ startOfMonth' = Val(result).startOfMonth
            /\ statusModel' = PrimaryModel(Val(result).models)
            /\ statusBarItem' = ShowText(statusBarItem,
                                    StatusBarText(Val(result).models, config.showPercentage))
            /\ refreshes' = [refreshes EXCEPT ![r] =
                                [rec EXCEPT !.pc = "done", !.outcome = "Displayed",
                                            !.promise = "fulfilled"]]
       ELSE /\ statusBarItem' = ShowText(statusBarItem, ErrorText)
            /\ refreshes' = [refreshes EXCEPT ![r] =
                                [rec EXCEPT !.pc = "done", !.outcome = "Error",
                                            !.promise = "fulfilled"]]
            /\ UNCHANGED <<lastUsage, startOfMonth, statusModel>>
    /\ UNCHANGED <<config, serverData, refreshTimer, quickPick>>

\* the response's 'end' event, then the continuation of refresh(); no response
\* ends on a request that failed
ResponseEnd(r, status, body) ==
    /\ refreshes[r].pc = "fetching"
    /\ ~refreshes[r].netError
    /\ FinishRefresh(r, [refreshes[r] EXCEPT !.status = status, !.body = body],
                     FetchResult(status, body))

\* RequestError if the 'error' event were not wired to reject
RequestErrorUnhandled(r) ==
    /\ refreshes[r].pc = "fetching"
    /\ ~refreshes[r].netError
    /\ refreshes' = [refreshes EXCEPT ![r] = [@ EXCEPT !.netError = TRUE]]
    /\ UNCHANGED <<config, serverData, statusBarItem, refreshTimer, lastUsage, startOfMonth,
                   statusModel, quickPick>>

\* the request's 'error' event (req.on('error', reject)), then the catch block
RequestError(r) ==
    /\ refreshes[r].pc = "fetching"
    /\ FinishRefresh(r, [refreshes[r] EXCEPT !.netError = TRUE], Null)

\* the cursor-usage.showDetails command
ShowDetails ==
    /\ Started
    /\ ~statusBarItem.disposed
    /\ quickPick' = Details(lastUsage, startOfMonth)
    /\ UNCHANGED <<config, serverData, statusBarItem, refreshTimer, lastUsage, startOfMonth,
                   statusModel, refreshes>>

\* Dispose without clearInterval
DisposeKeepTimer ==
    /\ Started
    /\ ~statusBarItem.disposed
    /\ statusBarItem' = [statusBarItem EXCEPT !.disposed = TRUE, !.visible = FALSE]
    /\ UNCHANGED <<config, serverData, refreshTimer, lastUsage, startOfMonth, statusModel,
                   refreshes, quickPick>>

\* dispose(), called by deactivate()
Dispose ==
    /\ Started
    /\ ~statusBarItem.disposed
    /\ refreshTimer' = [refreshTimer EXCEPT !.state = "cleared"]
    /\ statusBarItem' = [statusBarItem EXCEPT !.disposed = TRUE, !.visible = FALSE]
    /\ UNCHANGED <<config, serverData, lastUsage, startOfMonth, statusModel, refreshes, quickPick>>

(***************************************************************************)
(* The lifecycle: every operation, over a small endpoint.                  *)
(***************************************************************************)
StatusCodes == {200, 500}

IntervalChoices == {Null, Some(5), Some(10), Some(90)}

LifeBodies ==
    { UsageBody(<<Entry("gpt-4", 9, Some(10))>>, "2024-01-01"),
      UsageBody(<<Entry("gpt-3.5-turbo", 3, Null), StringEntry("note")>>, "2024-02-01") }

Init ==
    /\ config \in [refreshInterval : IntervalChoices, showPercentage : {TRUE}]
    /\ serverData = LifeBodies
    /\ InitMonitor

Refreshes == 1..Len(refreshes)

Next ==
    \/ Start
    \/ TimerFire
    \/ RefreshCommand
    \/ \E r \in Refreshes, db \in DbStates : AuthResolved(r, db)
    \/ \E r \in Refreshes, status \in StatusCodes,
          body \in serverData \cup {MalformedBody, NullBody} : ResponseEnd(r, status, body)
    \/ \E r \in Refreshes : RequestError(r)
    \/ ShowDetails
    \/ Dispose

Spec == Init /\ [][Next]_vars

(***************************************************************************)
(* One successful refresh over a wide range of responses: the parsing and  *)
(* the two renderings.                                                     *)
(***************************************************************************)
ListKeys ==
    {"gpt-4", "claude-3-opus", "claude-4.5-opus-high-thinking", "claude-3.5-sonnet",
     "gpt-3.5-turbo", "custom-model"}

\* the usage of an entry of a multi-entry response: <<numRequests, maxRequestUsage>>
ListUsages == {<<3, Null>>, <<0, Some(4)>>, <<3, Some(4)>>, <<2, Some(0)>>}

ListEntries ==
    {Entry(k, u[1], u[2]) : k \in ListKeys, u \in ListUsages} \cup {StringEntry("note")}

DistinctKeys(entries) ==
    \A i, j \in 1..Len(entries) : i # j => entries[i].key # entries[j].key

EntryLists ==
    {es \in UNION {[1..n -> ListEntries] : n \in 0..MaxModels} : DistinctKeys(es)}

ListBodies == {UsageBody(es, start) : es \in EntryLists, start \in {NoStartOfMonth, "2024-01-01"}}

SingleBodies ==
    {UsageBody(<<Entry("gpt-4", u, l)>>, "2024-01-01") :
        u \in 0..MaxUsed, l \in {Null} \cup {Some(n) : n \in 0..MaxLimit}}

InitParse ==
    /\ config \in [refreshInterval : {Null}, showPercentage : BOOLEAN]
    /\ serverData \in {{body} : body \in SingleBodies \cup ListBodies}
    /\ InitMonitor

NextParse ==
    \/ Start
    \/ \E r \in Refreshes : AuthResolved(r, SignedInDb)
    \/ \E r \in Refreshes, body \in serverData : ResponseEnd(r, 200, body)
    \/ ShowDetails

SpecParse == InitParse /\ [][NextParse]_vars

(***************************************************************************)
(* Properties of the parsed record list (checked under SpecParse).         *)
(***************************************************************************)
DisplayedRefresh(r) == refreshes[r].pc = "done" /\ refreshes[r].outcome = "Displayed"

SomeDisplayed == \E r \in Refreshes : DisplayedRefresh(r)

\* C1: the list parseUsage returns is in descending order of percentage, and
\* every record without a percentage comes after every record with one
\* (a percentage of 0 included).
C1_SortedAbsentLast ==
    \A r \in Refreshes : DisplayedRefresh(r) =>
        \A i, j \in 1..Len(lastUsage) : i < j =>
            /\ lastUsage[i].percentage = Null => lastUsage[j].percentage = Null
            /\ (lastUsage[i].percentage # Null /\ lastUsage[j].percentage # Null)
                   => Val(lastUsage[i].percentage) >= Val(lastUsage[j].percentage)

\* 100 * used / limit rounded to the nearest integer, halves up, in exact arithmetic
RoundedPercent(used, limit) == ((200 * used) + limit) \div (2 * limit)

\* C4: a record has a percentage exactly when its limit is present and > 0,
\* and the percentage then equals round(100 * used / limit).
C4_PercentageIsRoundedRatio ==
    \A r \in Refreshes : DisplayedRefresh(r) =>
        \A i \in 1..Len(lastUsage) :
            /\ lastUsage[i].percentage # Null
                   <=> (lastUsage[i].limit # Null /\ Val(lastUsage[i].limit) > 0)
            /\ lastUsage[i].percentage # Null
                   => Val(lastUsage[i].percentage)
                          = RoundedPercent(lastUsage[i].used, Val(lastUsage[i].limit))

\* C5: for used >= 0 and a positive limit the percentage is an integer in
\* 0..100, also when used exceeds the limit.
C5_PercentageWithin0To100 ==
    \A r \in Refreshes : DisplayedRefresh(r) =>
        \A i \in 1..Len(lastUsage) :
            (lastUsage[i].used >= 0 /\ lastUsage[i].limit # Null /\ Val(lastUsage[i].limit) > 0)
                => (lastUsage[i].percentage # Null /\ Val(lastUsage[i].percentage) \in 0..100)

(***************************************************************************)
(* Properties of the two renderings (checked under SpecParse).             *)
(***************************************************************************)
SeverityTier(remainingPercent) ==
    IF remainingPercent <= 10 THEN "critical"
    ELSE IF remainingPercent >= 11 /\ remainingPercent <= 30 THEN "warning"
    ELSE "ok"

StatusTier(icon) ==
    CASE icon = "$(error)" -> "critical"
      [] icon = "$(warning)" -> "warning"
      [] icon = "$(check)" -> "ok"
      [] OTHER -> "none"

DetailTier(icon) ==
    CASE icon = "red" -> "critical"
      [] icon = "yellow" -> "warning"
      [] icon = "green" -> "ok"
      [] OTHER -> "none"

HasLimitAndPercent(m) == m.limit # Null /\ m.percentage # Null

\* the row of the detail view that shows lastUsage[i]
DetailRowOf(i) == quickPick.items[i + (Len(quickPick.items) - Len(lastUsage))]

ClaimPriority ==
    <<"gpt-4", "claude-3-opus", "claude-4.5-opus-high-thinking", "claude-3.5-sonnet">>

\* the positions in ClaimPriority of the keys present in models
PresentPriorities(models) ==
    {k \in 1..Len(ClaimPriority) : \E i \in 1..Len(models) : models[i].key = ClaimPriority[k]}

Least(S) == CHOOSE x \in S : \A y \in S : x <= y

ClaimedPrimary(models) ==
    IF PresentPriorities(models) # {}
    THEN Some(models[CHOOSE i \in 1..Len(models) :
                         models[i].key = ClaimPriority[Least(PresentPriorities(models))]])
    ELSE IF \E i \in 1..Len(models) : models[i].limit # Null
    THEN Some(models[Least({i \in 1..Len(models) : models[i].limit # Null})])
    ELSE IF Len(models) > 0 THEN Some(models[1])
    ELSE Null

\* C6: the status bar shows the record whose key comes first in the priority
\* order, else the first record in list order with a limit, else the first
\* record; for an empty list it shows 'No data'.
C6_PrimaryRecordChoice ==
    SomeDisplayed =>
        /\ statusModel = ClaimedPrimary(lastUsage)
        /\ lastUsage = <<>> <=> statusBarItem.text = NoDataText
        /\ statusModel # Null
               => statusBarItem.text = ModelText(Val(statusModel), config.showPercentage)

\* a lower-priority key precedes a higher-priority key in the list and the
\* higher-priority record is shown
C6_Witness ==
    /\ SomeDisplayed
    /\ Len(lastUsage) >= 2
    /\ lastUsage[1].key = "claude-3.5-sonnet"
    /\ lastUsage[2].key = "claude-3-opus"
    /\ statusModel = Some(lastUsage[2])

(***************************************************************************)
(* The lifecycle under fair scheduling: every credential lookup resolves   *)
(* and every issued request delivers the end of a response or an error.    *)
(***************************************************************************)
LookupResolves(r) == r \in Refreshes /\ \E db \in DbStates : AuthResolved(r, db)

RequestDelivers(r) ==
    /\ r \in Refreshes
    /\ \/ \E status \in StatusCodes, body \in serverData \cup {MalformedBody, NullBody} :
              ResponseEnd(r, status, body)
       \/ RequestError(r)

\* the lifecycle with the default settings
InitLive == Init /\ config.refreshInterval = Null

LiveSpec ==
    /\ InitLive
    /\ [][Next]_vars
    /\ \A r \in 1..MaxRefreshes : WF_vars(LookupResolves(r)) /\ WF_vars(RequestDelivers(r))

(***************************************************************************)
(* Properties of the refresh cycle and the lifecycle (checked under Spec   *)
(* and LiveSpec).                                                          *)
(***************************************************************************)
\* refresh r finishes in this step
FinishesIn(r) == refreshes[r].pc # "done" /\ refreshes'[r].pc = "done"

\* the request of a finished refresh failed: a network error, a status other
\* than 200, or a body that is not JSON
RequestFailed(rec) ==
    rec.requested /\ (rec.netError \/ rec.status # 200 \/ rec.body.kind = "malformed")

\* C2: refresh never rejects; without a usable credential it shows
\* 'Not signed in' and issues no request; when the request fails (network
\* error, non-200 status, malformed JSON) it shows 'Error'.
C2_FailuresContained ==
    [][\A r \in Refreshes :
          /\ refreshes'[r].promise # "rejected"
          /\ refreshes'[r].requested => GetAuthDetails(refreshes'[r].db)
          /\ FinishesIn(r) =>
                /\ refreshes'[r].promise = "fulfilled"
                /\ ~GetAuthDetails(refreshes'[r].db)
                       => /\ statusBarItem'.text = NotSignedInText
                          /\ ~refreshes'[r].requested
                          /\ refreshes'[r].outcome = "NotSignedIn"
                /\ RequestFailed(refreshes'[r])
                       => /\ statusBarItem'.text = ErrorText
                          /\ refreshes'[r].outcome = "Error"]_vars

\* one refresh found no credential, another got a 500 and the bar shows 'Error'
C2_Witness ==
    /\ \E r \in Refreshes :
           /\ refreshes[r].outcome = "NotSignedIn"
           /\ ~refreshes[r].requested
    /\ \E r \in Refreshes :
           /\ refreshes[r].pc = "done"
           /\ refreshes[r].status = 500
           /\ refreshes[r].body.kind = "usage"
    /\ statusBarItem.text = ErrorText

Outcomes == {"Displayed", "NotSignedIn", "Error"}

\* C7: every refresh that is started eventually finishes in exactly one of
\* Displayed, NotSignedIn, Error, given that every issued request delivers
\* the end of a response or an error.
C7_RefreshFinishes ==
    /\ \A r \in 1..MaxRefreshes :
           (r \in Refreshes) ~> (/\ r \in Refreshes
                                 /\ refreshes[r].pc = "done"
                                 /\ refreshes[r].outcome \in Outcomes)
    /\ [][\A r \in Refreshes :
             /\ refreshes[r].pc # "done" => refreshes[r].outcome = "none"
             /\ refreshes[r].pc = "done" => refreshes'[r] = refreshes[r]]_vars

\* a refresh ended by a network error and another one displayed
C7_Witness ==
    /\ \E r \in Refreshes :
           refreshes[r].pc = "done" /\ refreshes[r].netError /\ refreshes[r].outcome = "Error"
    /\ \E r \in Refreshes :
           refreshes[r].pc = "done" /\ refreshes[r].outcome = "Displayed"

\* C8: overlapping refreshes are neither cancelled nor queued, and whichever
\* completes overwrites the usage list, the billing-cycle start and the
\* status bar text, whatever the order in which they started.
C8_LastCompletionWins ==
    [][/\ \A r \in Refreshes : FinishesIn(r) =>
             /\ \A q \in Refreshes \ {r} : refreshes'[q] = refreshes[q]
             /\ refreshes'[r].outcome = "Displayed" =>
                    /\ lastUsage' = ParseUsage(refreshes'[r].body)
                    /\ startOfMonth' = refreshes'[r].body.startOfMonth
                    /\ statusBarItem'.text = StatusBarText(lastUsage', config.showPercentage)
       /\ Len(refreshes') > Len(refreshes) =>
             /\ \A q \in Refreshes : refreshes'[q] = refreshes[q]
             /\ refreshes'[Len(refreshes')].pc = "auth"]_vars

\* both refreshes displayed, and the state is the one written by the refresh
\* that started first, not the one that started later
C8_Witness ==
    \E r1, r2 \in Refreshes :
        /\ r1 < r2
        /\ DisplayedRefresh(r1)
        /\ DisplayedRefresh(r2)
        /\ ParseUsage(refreshes[r1].body) # ParseUsage(refreshes[r2].body)
        /\ lastUsage = ParseUsage(refreshes[r1].body)
        /\ startOfMonth = refreshes[r1].body.startOfMonth
        /\ statusBarItem.text = StatusBarText(lastUsage, config.showPercentage)

\* C9: once dispose has run the timer is cancelled and the status bar item
\* released, and the timer starts no refresh in any later state.
C9_NoTimerRefreshAfterDispose ==
    /\ [](statusBarItem.disposed =>
              refreshTimer.state = "cleared" /\ ~statusBarItem.visible)
    /\ [][statusBarItem.disposed =>
              /\ statusBarItem'.disposed
              /\ \A r \in 1..Len(refreshes') :
                     r > Len(refreshes) => refreshes'[r].origin # "timer"]_vars

\* disposed while the timer could still have started a refresh
C9_Witness ==
    /\ statusBarItem.disposed
    /\ refreshTimer.state = "cleared"
    /\ Len(refreshes) < MaxRefreshes

\* the period the timer is to have, in seconds
ClaimedPeriod(cfg) ==
    IF cfg.refreshInterval = Null THEN 60
    ELSE IF Val(cfg.refreshInterval) < 10 THEN 10 ELSE Val(cfg.refreshInterval)

\* C10: start performs exactly one immediate refresh and arranges a timer
\* that triggers refresh every max(configured, 10) seconds, 60 by default.
C10_StartRefreshesOnceAndSetsTimer ==
    /\ ~Started => refreshes = <<>>
    /\ Started =>
           /\ Len(refreshes) >= 1
           /\ \A r \in Refreshes : refreshes[r].origin = "start" <=> r = 1
           /\ refreshTimer.intervalMs = 1000 * ClaimedPeriod(config)

\* an interval of 5 seconds is configured, the timer runs every 10 seconds
\* and has started a refresh
C10_Witness ==
    /\ config.refreshInterval = Some(5)
    /\ refreshTimer.state = "active"
    /\ refreshTimer.intervalMs = 10000
    /\ \E r \in Refreshes : refreshes[r].origin = "timer"

(***************************************************************************)
(* Properties of the credential lookup (checked under Spec).               *)
(***************************************************************************)
\* the database holds a token that does not decode into an identifier: it
\* is not a three-segment token whose payload has a sub claim
UndecodableToken(db) ==
    db.file = "ok" /\ db.row /\ ~(db.segments = 3 /\ db.payload = "sub")

\* C11: a stored token that cannot be decoded is used raw: the refresh goes
\* on to the usage request and does not end in NotSignedIn.
C11_UndecodableTokenUsedRaw ==
    \A r \in Refreshes :
        (refreshes[r].pc # "auth" /\ UndecodableToken(refreshes[r].db))
            => (refreshes[r].requested /\ refreshes[r].outcome # "NotSignedIn")

(***************************************************************************)
(* Properties of the last-known usage list (checked under Spec).           *)
(***************************************************************************)
\* C12 as stated: after a refresh has finished, whatever its outcome, the
\* last-known usage list holds no record computed in an earlier cycle: it is
\* the list this cycle computed, which is empty when the cycle ended in
\* NotSignedIn or Error.
C12_NoRecordOfEarlierCycle ==
    [][\A r \in Refreshes : FinishesIn(r) =>
          lastUsage' = IF refreshes'[r].outcome = "Displayed"
                       THEN ParseUsage(refreshes'[r].body)
                       ELSE <<>>]_vars

\* C12, amended: a refresh that finishes Displayed replaces the last-known
\* usage list and the billing-cycle start wholly by what it computed from
\* its own response; a refresh that finishes NotSignedIn or Error leaves
\* both as they were; show-details presents the list held at that moment.
C12_ListReplacedOnlyWhenDisplayed ==
    [][/\ \A r \in Refreshes : FinishesIn(r) =>
             IF refreshes'[r].outcome = "Displayed"
             THEN /\ lastUsage' = ParseUsage(refreshes'[r].body)
                  /\ startOfMonth' = refreshes'[r].body.startOfMonth
             ELSE /\ refreshes'[r].outcome \in {"NotSignedIn", "Error"}
                  /\ UNCHANGED <<lastUsage, startOfMonth>>
       /\ quickPick' # quickPick =>
             /\ quickPick' = Details(lastUsage, startOfMonth)
             /\ UNCHANGED <<lastUsage, startOfMonth>>]_vars

\* one refresh displayed a non-empty list, the other finished in Error or
\* NotSignedIn, and the list held and presented is still the displayed one
C12_Witness ==
    \E r1, r2 \in Refreshes :
        /\ DisplayedRefresh(r1)
        /\ refreshes[r2].pc = "done"
        /\ refreshes[r2].outcome \in {"NotSignedIn", "Error"}
        /\ lastUsage # <<>>
        /\ lastUsage = ParseUsage(refreshes[r1].body)
        /\ quickPick = Details(lastUsage, startOfMonth)

(***************************************************************************)
(* The colours of the README (checked under SpecParse).                    *)
(***************************************************************************)
\* README: green > 30% remaining, yellow 10-30% remaining, red < 10%
ReadmeColour(remainingPercent) ==
    IF remainingPercent > 30 THEN "green"
    ELSE IF remainingPercent >= 10 THEN "yellow"
    ELSE "red"

StatusColour(icon) ==
    CASE icon = "$(error)" -> "red"
      [] icon = "$(warning)" -> "yellow"
      [] icon = "$(check)" -> "green"
      [] OTHER -> "none"

\* C13: the colour of a record with a limit and a percentage is the README's:
\* green when more than 30% remains, yellow when 10% to 30% remains, exactly
\* 10% included, red only when less than 10% remains; in the detail view and
\* in the status bar.
C13_ColourFollowsReadme ==
    /\ quickPick.items # <<>> =>
           \A i \in 1..Len(lastUsage) :
               HasLimitAndPercent(lastUsage[i])
                   => DetailRowOf(i).icon
                          = ReadmeColour(100 - Val(lastUsage[i].percentage))
    /\ (SomeDisplayed /\ statusModel # Null /\ HasLimitAndPercent(Val(statusModel)))
           => StatusColour(statusBarItem.text.icon)
                  = ReadmeColour(100 - Val(Val(statusModel).percentage))

====
